---- MODULE Spec2Model ----
(***************************************************************************)
(* Event registry of event-planner-backend: the handlers of                *)
(* src/src/routes/events.js (create, update, delete, join, leave) over the *)
(* tables of the Prisma migration, with the Socket.IO broadcasts they      *)
(* issue.  A handler is split at its await points: the persistence read,   *)
(* the persistence write and the code after the write (emit and response)  *)
(* are separate steps, so that concurrent requests interleave as they do   *)
(* on the Node event loop.                                                  *)
(***************************************************************************)
EXTENDS Bags, FiniteSets, Integers, Sequences, TLC

VARIABLES events, attendees, nextId, calls, issued, log, committed, resp,
          sockets, inbox, hubOps, stamps, listing

vars == <<events, attendees, nextId, calls, issued, log, committed, resp,
          sockets, inbox, hubOps, stamps, listing>>

storeVars == <<events, attendees, nextId, calls, issued, log, committed, resp>>

(***************************************************************************)
(* Bounds of the model.                                                    *)
(***************************************************************************)
MaxCalls == 2       \* requests issued in one behaviour
MaxEvents == 2      \* event identifiers generated in one behaviour
MaxHubOps == 1      \* connections, disconnections and subscriptions in one behaviour

Slots == {1, 2}     \* requests that can be in flight together
Users == {"u1", "u2"}
NoUser == "none"    \* a request whose token is missing or invalid
EventIds == 1..MaxEvents

(***************************************************************************)
(* Limits of eventSchema.                                                  *)
(***************************************************************************)
MaxTitleLen == 200
MaxDescriptionLen == 2000
MaxLocationLen == 200
MaxCategoryLen == 50

Null == "null"

(***************************************************************************)
(* Text values are sequences of characters, so that trim() and the length  *)
(* limits are computed.                                                    *)
(***************************************************************************)
RECURSIVE TrimStart(_)
TrimStart(s) == IF s # <<>> /\ Head(s) = " " THEN TrimStart(Tail(s)) ELSE s

RECURSIVE TrimEnd(_)
TrimEnd(s) ==
    IF s # <<>> /\ s[Len(s)] = " " THEN TrimEnd(SubSeq(s, 1, Len(s) - 1)) ELSE s

Trim(s) == TrimEnd(TrimStart(s))

\* z.string().trim().min(1).max(n)
TextOk(s, n) == Len(Trim(s)) >= 1 /\ Len(Trim(s)) <= n

\* z.string().datetime(): the ISO strings of the model, with the instant
\* that new Date(s) yields for each (in days).
DateTable == ("2025-06-01T10:00:00Z" :> 20240) @@ ("2025-06-02T10:00:00Z" :> 20241)
IsDatetime(s) == s \in DOMAIN DateTable
NewDate(s) == DateTable[s]

\* z.string().url()
IsUrl(s) == s \in {"https://img/a", "https://img/b"}

SchemaKeys ==
    {"title", "description", "date", "location", "category", "imagesUrl", "coverUrl"}
RequiredKeys == SchemaKeys \ {"imagesUrl"}

FieldOk(k, v) ==
    CASE k = "title" -> TextOk(v, MaxTitleLen)
      [] k = "description" -> TextOk(v, MaxDescriptionLen)
      [] k = "date" -> IsDatetime(v)
      [] k = "location" -> TextOk(v, MaxLocationLen)
      [] k = "category" -> TextOk(v, MaxCategoryLen)
      [] k = "imagesUrl" -> \A i \in 1..Len(v) : IsUrl(v[i])
      [] k = "coverUrl" -> IsUrl(v)

\* eventSchema.parseAsync(body): a z.object ignores (strips) the keys it does
\* not declare, so only the declared keys decide the result.
eventSchema(body) ==
    /\ RequiredKeys \subseteq DOMAIN body
    /\ \A k \in SchemaKeys \cap DOMAIN body : FieldOk(k, body[k])

\* eventSchema.partial(): every declared key is optional.
eventSchemaPartial(body) ==
    \A k \in SchemaKeys \cap DOMAIN body : FieldOk(k, body[k])

\* A route without the validateRequest middleware.
validateRequestNone(op, body) == TRUE

\* validateRequest(schema): the parsed value is thrown away, req.body goes on
\* to the handler as it was sent.
validateRequest(op, body) ==
    CASE op = "create" -> eventSchema(body)
      [] op = "update" -> eventSchemaPartial(body)
      [] OTHER -> TRUE

(***************************************************************************)
(* Request bodies.  A body is a function from the keys sent to their       *)
(* values.  Besides the keys of eventSchema a client can send the relation *)
(* keys of the Event model: "attendees" with value u stands for            *)
(* { connect: { id: u } } and "creator" with value u for                   *)
(* { connect: { id: u } }, the shapes the handlers themselves pass to      *)
(* Prisma.                                                                 *)
(***************************************************************************)
Meetup == <<"M", "e", "e", "t", "u", "p">>
Padded == <<" ", "G", "i", "g">>
Blank == <<" ">>
HallA == <<"H", "a", "l", "l", "A">>
HallB == <<"H", "a", "l", "l", "B">>
Music == <<"M", "u", "s", "i", "c">>
About == <<"a", "b", "o", "u", "t">>

FullBody ==
    [title |-> Meetup, description |-> About, date |-> "2025-06-01T10:00:00Z",
     location |-> HallA, category |-> Music, coverUrl |-> "https://img/a"]

CreateBodies ==
    {FullBody,
     ("imagesUrl" :> <<"https://img/b", "https://img/b">>) @@ FullBody,
     ("title" :> Blank) @@ FullBody,
     [k \in DOMAIN FullBody \ {"coverUrl"} |-> FullBody[k]],
     ("attendees" :> "u2") @@ FullBody,
     ("creator" :> "u2") @@ FullBody}

UpdateBodies ==
    {[location |-> HallB],
     [title |-> Padded, date |-> "2025-06-02T10:00:00Z"],
     [coverUrl |-> "not a url"],
     [location |-> HallB, attendees |-> "u2"],
     [creator |-> "u2"]}

NoBody == [none |-> Null]

BodiesOf(op) ==
    CASE op = "create" -> CreateBodies
      [] op = "update" -> UpdateBodies
      [] OTHER -> {NoBody}

(***************************************************************************)
(* The tables.  events maps the identifier of each stored row of "events"  *)
(* to its columns; attendees is the bag of the rows <<A, B>> of            *)
(* "_Attendees" (A an event, B a user).                                    *)
(***************************************************************************)
Columns ==
    {"title", "description", "date", "location", "category", "coverUrl",
     "imagesUrl", "creatorId"}
ScalarKeys == Columns \ {"creatorId"}

\* Connect without the primary key: the row is inserted again.
ConnectNoKey(rows, e, u) == rows (+) SetToBag({<<e, u>>})

\* set instead of connect: the rows of the event are replaced by the new one.
ConnectSet(rows, e, u) ==
    [p \in {q \in DOMAIN rows : q[1] # e} |-> rows[p]] (+) SetToBag({<<e, u>>})

\* INSERT of one row of "_Attendees"; the primary key ("A","B") leaves a row
\* that is already there as it is.
Connect(rows, e, u) ==
    IF BagIn(<<e, u>>, rows) THEN rows ELSE rows (+) SetToBag({<<e, u>>})

\* Disconnect without the condition on B: every row of the event goes.
DisconnectAll(rows, e, u) == [p \in {q \in DOMAIN rows : q[1] # e} |-> rows[p]]

\* DELETE of the rows of "_Attendees" that link e and u.
Disconnect(rows, e, u) == [p \in DOMAIN rows \ {<<e, u>>} |-> rows[p]]

\* The foreign key without ON DELETE CASCADE handling: the rows stay.
CascadeNone(rows, e) == rows

\* ON DELETE CASCADE of "_Attendees_A_fkey".
Cascade(rows, e) == [p \in {q \in DOMAIN rows : q[1] # e} |-> rows[p]]

AttendeesOf(rows, e) == {u \in Users : BagIn(<<e, u>>, rows)}

\* data of prisma.event.create: the body, then date, then creator.
CreateData(body, userId) ==
    ("creator" :> userId) @@ ("date" :> NewDate(body["date"])) @@ body

\* data of prisma.event.update in PUT: the body, then date (undefined, that
\* is left out, when the body has none).
UpdateData(body) ==
    IF "date" \in DOMAIN body
    THEN ("date" :> NewDate(body["date"])) @@ body
    ELSE body

\* The row prisma.event.create stores for data.
CreatedRow(data) ==
    [k \in Columns |->
        CASE k = "creatorId" -> data["creator"]
          [] k = "imagesUrl" ->
                IF "imagesUrl" \in DOMAIN data THEN data["imagesUrl"] ELSE <<>>
          [] OTHER -> data[k]]

\* The row prisma.event.update leaves for data.
UpdatedRow(row, data) ==
    [k \in Columns |->
        CASE k = "creatorId" ->
                IF "creator" \in DOMAIN data THEN data["creator"] ELSE row[k]
          [] OTHER -> IF k \in DOMAIN data THEN data[k] ELSE row[k]]

\* The attendee rows after a write whose data may name the relation.
RowsAfter(rows, e, data) ==
    IF "attendees" \in DOMAIN data THEN Connect(rows, e, data["attendees"]) ELSE rows

\* update without include.attendees: the payload lists no attendee.
UpdatedEventNoAttendees(evs, rows, e) == [id |-> e, row |-> evs[e], attendees |-> {}]

\* What the include clauses of update return: the row with its attendees.
UpdatedEvent(evs, rows, e) ==
    [id |-> e, row |-> evs[e], attendees |-> AttendeesOf(rows, e)]

NoResult == [id |-> 0, row |-> <<>>, attendees |-> {}]

(***************************************************************************)
(* The checks the handlers make on what findUnique returned.               *)
(***************************************************************************)
\* PUT /:id without the creatorId comparison.
UpdateCheckNoOwner(evs, e, userId) == IF e \notin DOMAIN evs THEN "NotFound" ELSE "ok"

\* PUT /:id, after findUnique
UpdateCheck(evs, e, userId) ==
    IF e \notin DOMAIN evs THEN "NotFound"
    ELSE IF evs[e]["creatorId"] # userId THEN "Forbidden"
    ELSE "ok"

\* DELETE /:id with the creatorId comparison before the existence check.
DeleteCheckOwnerFirst(evs, e, userId) ==
    IF e \notin DOMAIN evs \/ evs[e]["creatorId"] # userId THEN "Forbidden" ELSE "ok"

\* DELETE /:id without the creatorId comparison.
DeleteCheckNoOwner(evs, e, userId) == IF e \notin DOMAIN evs THEN "NotFound" ELSE "ok"

\* DELETE /:id, after findUnique
DeleteCheck(evs, e, userId) ==
    IF e \notin DOMAIN evs THEN "NotFound"
    ELSE IF evs[e]["creatorId"] # userId THEN "Forbidden"
    ELSE "ok"

\* POST /:id/join without the attendees.some() check.
JoinCheckNoMember(evs, rows, e, userId) == IF e \notin DOMAIN evs THEN "NotFound" ELSE "ok"

\* POST /:id/join, after findUnique
JoinCheck(evs, rows, e, userId) ==
    IF e \notin DOMAIN evs THEN "NotFound"
    ELSE IF \E a \in AttendeesOf(rows, e) : a = userId THEN "AlreadyMember"
    ELSE "ok"

(***************************************************************************)
(* Requests.  calls[c] is the request in slot c: its operation, the user   *)
(* of its token, the :id parameter, the body, the step it stands before    *)
(* (pc) and the value its write returned (result).  pre is a history       *)
(* field: what the store held for the request at its first persistence     *)
(* access.  resp lists the responses sent, in the order they were sent.    *)
(***************************************************************************)
Ops == {"create", "update", "delete", "join", "leave"}

NoPre == [exists |-> FALSE, member |-> FALSE]

Idle ==
    [op |-> "none", userId |-> NoUser, id |-> 0, body |-> NoBody, pc |-> "idle",
     result |-> NoResult, pre |-> NoPre]

PreOf(e, u) == [exists |-> e \in DOMAIN events, member |-> BagIn(<<e, u>>, attendees)]

FirstStep(op) == IF op \in {"create", "leave"} THEN "write" ELSE "find"

InFlight(op) == {c \in Slots : calls[c].op = op /\ calls[c].pc # "idle"}

\* The response: the slot is free again and resp records the outcome.
Respond(c, outcome, pre) ==
    /\ calls' = [calls EXCEPT ![c] = Idle]
    /\ resp' = Append(resp, [op |-> calls[c].op, userId |-> calls[c].userId,
                             id |-> calls[c].id, outcome |-> outcome, pre |-> pre])

(***************************************************************************)
(* The Socket.IO server.  sockets[k] tells whether client k is connected   *)
(* and which rooms its socket has joined (room e stands for `event:${e}`,  *)
(* room 0 for no room: a broadcast to all).  inbox[k] lists what client k  *)
(* has received, as positions of log, in the order of receipt.             *)
(***************************************************************************)
Clients == {"k1", "k2", "k3"}

NoSocket == [connected |-> FALSE, rooms |-> {}]

\* emit without to(room): every connected socket.
RecipientsAll(socks, room) == {k \in Clients : socks[k].connected}

\* io.emit reaches every connected socket, io.to(room).emit the sockets that
\* joined the room.
Recipients(socks, room) ==
    IF room = 0
    THEN {k \in Clients : socks[k].connected}
    ELSE {k \in Clients : socks[k].connected /\ room \in socks[k].rooms}

Emit(name, room, payload) ==
    /\ log' = Append(log, [name |-> name, room |-> room, payload |-> payload])
    /\ inbox' = [k \in Clients |->
                    IF k \in Recipients(sockets, room)
                    THEN Append(inbox[k], Len(log) + 1)
                    ELSE inbox[k]]

\* History of the writes: n counts the committed writes, of[c] is the number
\* of the write of the request in slot c, sent[i] the number of the write
\* whose result log[i] carries.
NoStamps == [n |-> 0, of |-> [c \in Slots |-> 0], sent |-> <<>>]
Stamped(c) == [stamps EXCEPT !.n = @ + 1, !.of[c] = stamps.n + 1]
Sent(c) == [stamps EXCEPT !.sent = Append(@, stamps.of[c]), !.of[c] = 0]

NoListing == [status |-> 0]

\* The state of event e in the store, for the history variable committed.
Snapshot(evs, rows, e) ==
    [id |-> e, row |-> evs[e], attendees |-> {u \in Users : <<e, u>> \in DOMAIN rows}]

\* The stores a server can start on: the database outlives the process, so
\* the rows are those that earlier requests left.  Each is a record of the
\* events table, the _Attendees rows and the next identifier to generate.
StoredRow(u) == CreatedRow(CreateData(FullBody, u))

InitialStores ==
    {[events |-> [e \in {} |-> Null], attendees |-> EmptyBag, nextId |-> 1],
     [events |-> (1 :> StoredRow("u1")), attendees |-> EmptyBag, nextId |-> 2],
     [events |-> (1 :> StoredRow("u1")) @@ (2 :> StoredRow("u2")),
      attendees |-> SetToBag({<<1, "u2">>, <<2, "u1">>, <<2, "u2">>}), nextId |-> 3]}

Init ==
    /\ \E db \in InitialStores :
          /\ events = db.events
          /\ attendees = db.attendees
          /\ nextId = db.nextId
    /\ calls = [c \in Slots |-> Idle]
    /\ issued = 0
    /\ log = <<>>
    /\ committed = {Snapshot(events, attendees, e) : e \in DOMAIN events}
    /\ resp = <<>>
    /\ sockets = [k \in Clients |-> NoSocket]
    /\ inbox = [k \in Clients |-> <<>>]
    /\ hubOps = 0
    /\ stamps = NoStamps
    /\ listing = NoListing

\* A request arrives and passes the middleware: verifyToken, then
\* validateRequest on the routes that have it.  It takes the first free slot.
Request(c) ==
    /\ calls[c].pc = "idle"
    /\ \A d \in Slots : d < c => calls[d].pc # "idle"
    /\ issued < MaxCalls
    /\ \E op \in Ops, u \in Users \cup {NoUser} :
       \E e \in (IF op = "create" THEN {0} ELSE EventIds), body \in BodiesOf(op) :
          /\ op = "create" => nextId + Cardinality(InFlight("create")) <= MaxEvents
          /\ issued' = issued + 1
          /\ LET call == [op |-> op, userId |-> u, id |-> e, body |-> body,
                          pc |-> FirstStep(op), result |-> NoResult, pre |-> NoPre]
             IN  IF u = NoUser
                 THEN /\ calls' = calls
                      /\ resp' = Append(resp, [op |-> op, userId |-> u, id |-> e,
                                     outcome |-> "Unauthenticated", pre |-> NoPre])
                 ELSE IF ~validateRequest(op, body)
                 THEN /\ calls' = calls
                      /\ resp' = Append(resp, [op |-> op, userId |-> u, id |-> e,
                                     outcome |-> "ValidationFailed", pre |-> NoPre])
                 ELSE /\ calls' = [calls EXCEPT ![c] = call]
                      /\ resp' = resp
          /\ UNCHANGED <<events, attendees, nextId, log, committed>>
    /\ UNCHANGED <<sockets, inbox, hubOps, stamps, listing>>

\* POST /: prisma.event.create
CreateWrite(c) ==
    /\ calls[c].op = "create" /\ calls[c].pc = "write"
    /\ LET e == nextId
           data == CreateData(calls[c].body, calls[c].userId)
       IN  /\ events' = (e :> CreatedRow(data)) @@ events
           /\ attendees' = RowsAfter(attendees, e, data)
           /\ nextId' = nextId + 1
           /\ committed' = committed \cup {Snapshot(events', attendees', e)}
           /\ calls' = [calls EXCEPT ![c].pc = "emit", ![c].id = e,
                                     ![c].pre = PreOf(e, calls[c].userId),
                                     ![c].result = [id |-> e, row |-> events'[e]]]
    /\ UNCHANGED <<issued, log, resp>>
    /\ stamps' = IF calls'[c].pc = "emit" THEN Stamped(c) ELSE stamps
    /\ UNCHANGED <<sockets, inbox, hubOps, listing>>

\* POST /: io.emit("newEvent", event) and the 201 response
CreateEmit(c) ==
    /\ calls[c].op = "create" /\ calls[c].pc = "emit"
    /\ Emit("newEvent", 0, calls[c].result)
    /\ Respond(c, "Success", calls[c].pre)
    /\ UNCHANGED <<events, attendees, nextId, issued, committed>>
    /\ stamps' = Sent(c)
    /\ UNCHANGED <<sockets, hubOps, listing>>

\* PUT /:id: findUnique and the 404 / 403 checks
UpdateFind(c) ==
    /\ calls[c].op = "update" /\ calls[c].pc = "find"
    /\ LET r == UpdateCheck(events, calls[c].id, calls[c].userId)
           pre == PreOf(calls[c].id, calls[c].userId)
       IN  IF r = "ok"
           THEN /\ calls' = [calls EXCEPT ![c].pc = "write", ![c].pre = pre]
                /\ resp' = resp
           ELSE Respond(c, r, pre)
    /\ UNCHANGED <<events, attendees, nextId, issued, log, committed>>
    /\ UNCHANGED <<sockets, inbox, hubOps, stamps, listing>>

\* PUT /:id: prisma.event.update (it throws when the row is gone)
UpdateWrite(c) ==
    /\ calls[c].op = "update" /\ calls[c].pc = "write"
    /\ LET e == calls[c].id
           data == UpdateData(calls[c].body)
       IN  IF e \notin DOMAIN events
           THEN /\ Respond(c, "Internal", calls[c].pre)
                /\ UNCHANGED <<events, attendees, committed>>
           ELSE /\ events' = [events EXCEPT ![e] = UpdatedRow(@, data)]
                /\ attendees' = RowsAfter(attendees, e, data)
                /\ committed' = committed \cup {Snapshot(events', attendees', e)}
                /\ calls' = [calls EXCEPT ![c].pc = "emit",
                                ![c].result = UpdatedEvent(events', attendees', e)]
                /\ resp' = resp
    /\ UNCHANGED <<nextId, issued, log>>
    /\ stamps' = IF calls'[c].pc = "emit" THEN Stamped(c) ELSE stamps
    /\ UNCHANGED <<sockets, inbox, hubOps, listing>>

\* PUT /:id: io.to(room).emit("eventUpdated", updatedEvent) and the response
UpdateEmit(c) ==
    /\ calls[c].op = "update" /\ calls[c].pc = "emit"
    /\ Emit("eventUpdated", calls[c].id, calls[c].result)
    /\ Respond(c, "Success", calls[c].pre)
    /\ UNCHANGED <<events, attendees, nextId, issued, committed>>
    /\ stamps' = Sent(c)
    /\ UNCHANGED <<sockets, hubOps, listing>>

\* DELETE /:id: findUnique and the 404 / 403 checks
DeleteFind(c) ==
    /\ calls[c].op = "delete" /\ calls[c].pc = "find"
    /\ LET r == DeleteCheck(events, calls[c].id, calls[c].userId)
           pre == PreOf(calls[c].id, calls[c].userId)
       IN  IF r = "ok"
           THEN /\ calls' = [calls EXCEPT ![c].pc = "write", ![c].pre = pre]
                /\ resp' = resp
           ELSE Respond(c, r, pre)
    /\ UNCHANGED <<events, attendees, nextId, issued, log, committed>>
    /\ UNCHANGED <<sockets, inbox, hubOps, stamps, listing>>

\* DELETE /:id: prisma.event.delete (it throws when the row is gone)
DeleteWrite(c) ==
    /\ calls[c].op = "delete" /\ calls[c].pc = "write"
    /\ LET e == calls[c].id
       IN  IF e \notin DOMAIN events
           THEN /\ Respond(c, "Internal", calls[c].pre)
                /\ UNCHANGED <<events, attendees>>
           ELSE /\ events' = [d \in DOMAIN events \ {e} |-> events[d]]
                /\ attendees' = Cascade(attendees, e)
                /\ calls' = [calls EXCEPT ![c].pc = "emit"]
                /\ resp' = resp
    /\ UNCHANGED <<nextId, issued, log, committed>>
    /\ stamps' = IF calls'[c].pc = "emit" THEN Stamped(c) ELSE stamps
    /\ UNCHANGED <<sockets, inbox, hubOps, listing>>

\* DELETE /:id: io.emit("eventDeleted", id) and the response
DeleteEmit(c) ==
    /\ calls[c].op = "delete" /\ calls[c].pc = "emit"
    /\ Emit("eventDeleted", 0, calls[c].id)
    /\ Respond(c, "Success", calls[c].pre)
    /\ UNCHANGED <<events, attendees, nextId, issued, committed>>
    /\ stamps' = Sent(c)
    /\ UNCHANGED <<sockets, hubOps, listing>>

\* POST /:id/join: findUnique and the 404 / "Already joined" checks
JoinFind(c) ==
    /\ calls[c].op = "join" /\ calls[c].pc = "find"
    /\ LET r == JoinCheck(events, attendees, calls[c].id, calls[c].userId)
           pre == PreOf(calls[c].id, calls[c].userId)
       IN  IF r = "ok"
           THEN /\ calls' = [calls EXCEPT ![c].pc = "write", ![c].pre = pre]
                /\ resp' = resp
           ELSE Respond(c, r, pre)
    /\ UNCHANGED <<events, attendees, nextId, issued, log, committed>>
    /\ UNCHANGED <<sockets, inbox, hubOps, stamps, listing>>

\* Join whose handler throws after its update has committed.
JoinWriteThenFail(c) ==
    /\ calls[c].op = "join" /\ calls[c].pc = "write"
    /\ LET e == calls[c].id
       IN  /\ attendees' = IF e \in DOMAIN events
                           THEN Connect(attendees, e, calls[c].userId) ELSE attendees
           /\ committed' = IF e \in DOMAIN events
                           THEN committed \cup {Snapshot(events, attendees', e)}
                           ELSE committed
           /\ Respond(c, "Internal", calls[c].pre)
    /\ UNCHANGED <<events, nextId, issued, log>>
    /\ stamps' = stamps
    /\ UNCHANGED <<sockets, inbox, hubOps, listing>>

\* POST /:id/join: prisma.event.update with attendees.connect
JoinWrite(c) ==
    /\ calls[c].op = "join" /\ calls[c].pc = "write"
    /\ LET e == calls[c].id
       IN  IF e \notin DOMAIN events
           THEN /\ Respond(c, "Internal", calls[c].pre)
                /\ UNCHANGED <<attendees, committed>>
           ELSE /\ attendees' = Connect(attendees, e, calls[c].userId)
                /\ committed' = committed \cup {Snapshot(events, attendees', e)}
                /\ calls' = [calls EXCEPT ![c].pc = "emit",
                                ![c].result = UpdatedEvent(events, attendees', e)]
                /\ resp' = resp
    /\ UNCHANGED <<events, nextId, issued, log>>
    /\ stamps' = IF calls'[c].pc = "emit" THEN Stamped(c) ELSE stamps
    /\ UNCHANGED <<sockets, inbox, hubOps, listing>>

\* POST /:id/join: io.to(room).emit("eventUpdated", updatedEvent) and the response
JoinEmit(c) ==
    /\ calls[c].op = "join" /\ calls[c].pc = "emit"
    /\ Emit("eventUpdated", calls[c].id, calls[c].result)
    /\ Respond(c, "Success", calls[c].pre)
    /\ UNCHANGED <<events, attendees, nextId, issued, committed>>
    /\ stamps' = Sent(c)
    /\ UNCHANGED <<sockets, hubOps, listing>>

\* Leave whose update of a missing event changes nothing and does not throw.
LeaveWriteLenient(c) ==
    /\ calls[c].op = "leave" /\ calls[c].pc = "write"
    /\ LET e == calls[c].id
           pre == PreOf(e, calls[c].userId)
       IN  /\ attendees' = Disconnect(attendees, e, calls[c].userId)
           /\ committed' = committed
           /\ calls' = [calls EXCEPT ![c].pc = "emit", ![c].pre = pre,
                           ![c].result = IF e \in DOMAIN events
                                         THEN UpdatedEvent(events, attendees', e)
                                         ELSE NoResult]
           /\ resp' = resp
    /\ UNCHANGED <<events, nextId, issued, log>>
    /\ stamps' = Stamped(c)
    /\ UNCHANGED <<sockets, inbox, hubOps, listing>>

\* POST /:id/leave: prisma.event.update with attendees.disconnect
LeaveWrite(c) ==
    /\ calls[c].op = "leave" /\ calls[c].pc = "write"
    /\ LET e == calls[c].id
           pre == PreOf(e, calls[c].userId)
       IN  IF e \notin DOMAIN events
           THEN /\ Respond(c, "Internal", pre)
                /\ UNCHANGED <<attendees, committed>>
           ELSE /\ attendees' = Disconnect(attendees, e, calls[c].userId)
                /\ committed' = committed \cup {Snapshot(events, attendees', e)}
                /\ calls' = [calls EXCEPT ![c].pc = "emit", ![c].pre = pre,
                                ![c].result = UpdatedEvent(events, attendees', e)]
                /\ resp' = resp
    /\ UNCHANGED <<events, nextId, issued, log>>
    /\ stamps' = IF calls'[c].pc = "emit" THEN Stamped(c) ELSE stamps
    /\ UNCHANGED <<sockets, inbox, hubOps, listing>>

\* Leave that also takes the sockets out of the room of the event.
LeaveEmitUnsubscribe(c) ==
    /\ calls[c].op = "leave" /\ calls[c].pc = "emit"
    /\ Emit("eventUpdated", calls[c].id, calls[c].result)
    /\ Respond(c, "Success", calls[c].pre)
    /\ UNCHANGED <<events, attendees, nextId, issued, committed>>
    /\ stamps' = Sent(c)
    /\ sockets' = [k \in Clients |-> [sockets[k] EXCEPT !.rooms = @ \ {calls[c].id}]]
    /\ UNCHANGED <<hubOps, listing>>

\* POST /:id/leave: io.to(room).emit("eventUpdated", updatedEvent) and the response
LeaveEmit(c) ==
    /\ calls[c].op = "leave" /\ calls[c].pc = "emit"
    /\ Emit("eventUpdated", calls[c].id, calls[c].result)
    /\ Respond(c, "Success", calls[c].pre)
    /\ UNCHANGED <<events, attendees, nextId, issued, committed>>
    /\ stamps' = Sent(c)
    /\ UNCHANGED <<sockets, hubOps, listing>>

Step(c) ==
    \/ CreateWrite(c) \/ CreateEmit(c)
    \/ UpdateFind(c) \/ UpdateWrite(c) \/ UpdateEmit(c)
    \/ DeleteFind(c) \/ DeleteWrite(c) \/ DeleteEmit(c)
    \/ JoinFind(c) \/ JoinWrite(c) \/ JoinEmit(c)
    \/ LeaveWrite(c) \/ LeaveEmit(c)

\* Requests interleave at their await points.
Next == \E c \in Slots : Request(c) \/ Step(c)

Spec == Init /\ [][Next]_vars

\* One request at a time: a request arrives when no other is in flight.
RequestSeq(c) ==
    /\ \A d \in Slots : calls[d].pc = "idle"
    /\ Request(c)

NextSeq == \E c \in Slots : RequestSeq(c) \/ Step(c)

SpecSeq == Init /\ [][NextSeq]_vars

(***************************************************************************)
(* Clients of the Socket.IO server.                                        *)
(***************************************************************************)
\* A connection that replays the broadcasts the client has not received.
ClientConnectReplay(k) ==
    /\ hubOps < MaxHubOps
    /\ ~sockets[k].connected
    /\ sockets' = [sockets EXCEPT ![k] = [connected |-> TRUE, rooms |-> {}]]
    /\ inbox' = [inbox EXCEPT ![k] =
                    @ \o [i \in 1..Len(log) |-> i]]
    /\ hubOps' = hubOps + 1
    /\ UNCHANGED <<storeVars, stamps, listing>>

\* io.on("connection"): a new socket, in no room.
ClientConnect(k) ==
    /\ hubOps < MaxHubOps
    /\ ~sockets[k].connected
    /\ sockets' = [sockets EXCEPT ![k] = [connected |-> TRUE, rooms |-> {}]]
    /\ hubOps' = hubOps + 1
    /\ UNCHANGED <<storeVars, inbox, stamps, listing>>

\* The socket closes; it is in no room any more.
ClientDisconnect(k) ==
    /\ hubOps < MaxHubOps
    /\ sockets[k].connected
    /\ sockets' = [sockets EXCEPT ![k] = NoSocket]
    /\ hubOps' = hubOps + 1
    /\ UNCHANGED <<storeVars, inbox, stamps, listing>>

\* socket.on("joinEvent", eventId): socket.join(`event:${eventId}`)
JoinEvent(k) ==
    /\ hubOps < MaxHubOps
    /\ sockets[k].connected
    /\ \E e \in EventIds :
          sockets' = [sockets EXCEPT ![k].rooms = @ \cup {e}]
    /\ hubOps' = hubOps + 1
    /\ UNCHANGED <<storeVars, inbox, stamps, listing>>

\* A server that has run for a while: the store holds event 1, k1 watches
\* event 1, k2 is connected and watches nothing, k3 is not connected.
InitHub ==
    /\ \E db \in {d \in InitialStores : d.nextId = 2} :
          /\ events = db.events
          /\ attendees = db.attendees
          /\ nextId = db.nextId
    /\ calls = [c \in Slots |-> Idle]
    /\ issued = 0
    /\ log = <<>>
    /\ committed = {Snapshot(events, attendees, e) : e \in DOMAIN events}
    /\ resp = <<>>
    /\ sockets = [k \in Clients |->
                    CASE k = "k1" -> [connected |-> TRUE, rooms |-> {1}]
                      [] k = "k2" -> [connected |-> TRUE, rooms |-> {}]
                      [] OTHER -> NoSocket]
    /\ inbox = [k \in Clients |-> <<>>]
    /\ hubOps = 0
    /\ stamps = NoStamps
    /\ listing = NoListing

\* The requests of user u1 that reach a handler and create an event or name
\* event 1.
RequestHub(c) ==
    /\ Request(c)
    /\ calls'[c].pc # "idle"
    /\ calls'[c].userId = "u1"
    /\ calls'[c].id \in {0, 1}

NextHub ==
    \/ \E c \in Slots : RequestHub(c) \/ Step(c)
    \/ \E k \in Clients : ClientConnect(k) \/ ClientDisconnect(k) \/ JoinEvent(k)

SpecHub == InitHub /\ [][NextHub]_vars

(***************************************************************************)
(* GET /: the listing.  The query is a function from the parameters sent   *)
(* to their values; startDate, endDate and search are never sent, so their *)
(* conjuncts of where are {}.  The two statements of prisma.$transaction   *)
(* read one state of the tables.                                           *)
(***************************************************************************)
MaxStored == 3      \* events in the store that is listed
MaxPage == 3        \* largest page number asked for

DefaultPage == 1
DefaultLimit == 10
MaxLimit == 100

Uppers == <<"A", "B", "C", "D", "E", "F", "G", "H", "I", "J", "K", "L", "M",
            "N", "O", "P", "Q", "R", "S", "T", "U", "V", "W", "X", "Y", "Z">>
Lowers == <<"a", "b", "c", "d", "e", "f", "g", "h", "i", "j", "k", "l", "m",
            "n", "o", "p", "q", "r", "s", "t", "u", "v", "w", "x", "y", "z">>

\* String.prototype.toLowerCase on the letters of the model.
ToLowerCase(s) ==
    [i \in 1..Len(s) |->
        IF \E j \in 1..Len(Uppers) : Uppers[j] = s[i]
        THEN Lowers[CHOOSE j \in 1..Len(Uppers) : Uppers[j] = s[i]]
        ELSE s[i]]

NoKeys == [k \in {} |-> 0]

MusicLower == <<"m", "u", "s", "i", "c">>
MusicUpper == <<"M", "U", "S", "I", "C">>
MusicPadded == <<" ", "M", "u", "s", "i", "c", " ">>
Art == <<"A", "r", "t">>
ArtLower == <<"a", "r", "t">>

PageParts == {NoKeys} \cup {"page" :> p : p \in 0..MaxPage}
LimitParts == {NoKeys} \cup {"limit" :> l : l \in {0, 1, 2, 3, MaxLimit, MaxLimit + 1}}
CategoryParts ==
    {NoKeys} \cup
    {"category" :> t : t \in {Music, MusicLower, MusicUpper, MusicPadded, ArtLower, Blank}}
SortParts ==
    {sq @@ oq : sq \in {NoKeys} \cup {"sortBy" :> b : b \in {"date", "attendeeCount", "id"}},
                oq \in {NoKeys} \cup {"sortOrder" :> "desc"}}

\* The queries sent: pages of the whole table and of one category, every
\* filter in every order, and single rows in every order.
Queries ==
    {pq @@ lq @@ cq : pq \in PageParts, lq \in LimitParts,
                      cq \in {NoKeys, "category" :> MusicLower}}
    \cup {cq @@ sq : cq \in CategoryParts, sq \in SortParts}
    \cup {("page" :> 2) @@ ("limit" :> 1) @@ sq : sq \in SortParts}

\* querySchema.parse succeeds.
QueryOk(q) ==
    /\ "page" \in DOMAIN q => q["page"] >= 1
    /\ "limit" \in DOMAIN q => (q["limit"] >= 1 /\ q["limit"] <= MaxLimit)
    /\ "category" \in DOMAIN q => Len(Trim(q["category"])) >= 1
    /\ "sortBy" \in DOMAIN q => q["sortBy"] \in {"date", "title", "attendeeCount"}
    /\ "sortOrder" \in DOMAIN q => q["sortOrder"] \in {"asc", "desc"}

\* The value querySchema.parse returns; category <<>> stands for undefined.
querySchema(q) ==
    [page |-> IF "page" \in DOMAIN q THEN q["page"] ELSE DefaultPage,
     limit |-> IF "limit" \in DOMAIN q THEN q["limit"] ELSE DefaultLimit,
     category |-> IF "category" \in DOMAIN q
                  THEN ToLowerCase(Trim(q["category"])) ELSE <<>>,
     sortBy |-> IF "sortBy" \in DOMAIN q THEN q["sortBy"] ELSE "date",
     sortOrder |-> IF "sortOrder" \in DOMAIN q THEN q["sortOrder"] ELSE "asc"]

\* where: category ? { category } : {}, an equality of the column.
Where(evs, category) ==
    {e \in DOMAIN evs : category = <<>> \/ evs[e]["category"] = category}

\* orderBy: the date column or the number of _Attendees rows.  The order by
\* title is the collation's and no query of the model asks for it.
SortKey(evs, rows, e, sortBy) ==
    IF sortBy = "attendeeCount" THEN Cardinality(AttendeesOf(rows, e)) ELSE evs[e]["date"]

\* The orders findMany can return the rows of where in: rows of equal key
\* come in any order.
Ordered(evs, rows, matched, sortBy, sortOrder) ==
    {ord \in [1..Cardinality(matched) -> matched] :
        /\ \A i, j \in DOMAIN ord : i # j => ord[i] # ord[j]
        /\ \A i, j \in DOMAIN ord :
              i < j => IF sortOrder = "asc"
                       THEN SortKey(evs, rows, ord[i], sortBy) <= SortKey(evs, rows, ord[j], sortBy)
                       ELSE SortKey(evs, rows, ord[i], sortBy) >= SortKey(evs, rows, ord[j], sortBy)}

\* skip and take of findMany.
SkipTake(ord, skip, take) ==
    SubSeq(ord, skip + 1, IF skip + take < Len(ord) THEN skip + take ELSE Len(ord))

\* Math.floor(total / limit)
TotalPagesFloor(total, limit) == total \div limit

\* Math.ceil(total / limit)
TotalPages(total, limit) ==
    IF total % limit = 0 THEN total \div limit ELSE (total \div limit) + 1

\* router.get("/"): 400 for a query the schema rejects, else the page and
\* its pagination.  matched records the rows that where selects.  The
\* handler writes no row and reads no earlier answer, so the answers after
\* several listings are the answers after one: a behaviour holds one.
List(q) ==
    /\ listing = NoListing
    /\ \/ /\ ~QueryOk(q)
          /\ listing' = [status |-> 400, query |-> q]
       \/ /\ QueryOk(q)
          /\ LET query == querySchema(q)
                 matched == Where(events, query.category)
                 total == Cardinality(matched)
                 totalPages == TotalPages(total, query.limit)
             IN  \E ord \in Ordered(events, attendees, matched, query.sortBy, query.sortOrder) :
                    listing' =
                        [status |-> 200, query |-> q, matched |-> matched,
                         sortBy |-> query.sortBy, sortOrder |-> query.sortOrder,
                         events |-> SkipTake(ord, (query.page - 1) * query.limit, query.limit),
                         currentPage |-> query.page,
                         totalPages |-> totalPages,
                         totalEvents |-> total,
                         hasNextPage |-> query.page < totalPages,
                         hasPrevPage |-> query.page > 1,
                         limit |-> query.limit]
    /\ UNCHANGED <<storeVars, sockets, inbox, hubOps, stamps>>

\* The rows that POST / stored for bodies of several categories and dates,
\* with the _Attendees rows that joins left.
ListRows ==
    {[category |-> Music, date |-> "2025-06-01T10:00:00Z", attendees |-> {}],
     [category |-> MusicLower, date |-> "2025-06-02T10:00:00Z", attendees |-> {"u1"}],
     [category |-> Art, date |-> "2025-06-01T10:00:00Z", attendees |-> {"u1", "u2"}]}

ListStores ==
    UNION {{[events |-> [e \in 1..n |->
                           CreatedRow(CreateData([FullBody EXCEPT !.category = kind[e].category,
                                                                  !.date = kind[e].date], "u1"))],
             attendees |-> SetToBag({<<e, u>> : e \in 1..n, u \in Users}
                                     \cap {p \in (1..n) \X Users : p[2] \in kind[p[1]].attendees}),
             nextId |-> n + 1] : kind \in [1..n -> ListRows]} : n \in 0..MaxStored}

InitList ==
    /\ \E db \in ListStores :
          /\ events = db.events
          /\ attendees = db.attendees
          /\ nextId = db.nextId
    /\ calls = [c \in Slots |-> Idle]
    /\ issued = 0
    /\ log = <<>>
    /\ committed = {Snapshot(events, attendees, e) : e \in DOMAIN events}
    /\ resp = <<>>
    /\ sockets = [k \in Clients |-> NoSocket]
    /\ inbox = [k \in Clients |-> <<>>]
    /\ hubOps = 0
    /\ stamps = NoStamps
    /\ listing = NoListing

NextList == \E q \in Queries : List(q)

SpecList == InitList /\ [][NextList]_vars

(***************************************************************************)
(* Properties.                                                             *)
(***************************************************************************)
Responses == 1..Len(resp)
AllIdle == \A c \in Slots : calls[c].pc = "idle"
NonMember(r) == r.pre.exists /\ ~r.pre.member
SameCall(r, q) == r.op = q.op /\ r.userId = q.userId /\ r.id = q.id

\* Slot c takes the step that leaves pc = from.
Takes(c, op, from) ==
    calls[c].op = op /\ calls[c].pc = from /\ calls'[c] # calls[c]

\* The response sent in this step, if one is.
Answers(outcome) ==
    Len(resp') = Len(resp) + 1 /\ resp'[Len(resp')].outcome = outcome

\* C1: with one request at a time, a Join of an existing event by a user who
\* is not an attendee succeeds; a second Join by the same user of the same
\* event that follows it is answered AlreadyMember, and after it the
\* attendee rows hold the user exactly once for the event.
C1_JoinTwice ==
    \A i \in Responses :
        (resp[i].op = "join" /\ NonMember(resp[i])) =>
            /\ resp[i].outcome = "Success"
            /\ (i < Len(resp) /\ SameCall(resp[i], resp[i + 1])) =>
                  /\ resp[i + 1].outcome = "AlreadyMember"
                  /\ (i + 1 = Len(resp) /\ AllIdle) =>
                        CopiesIn(<<resp[i].id, resp[i].userId>>, attendees) = 1

C1_Witness ==
    \E i \in Responses :
        /\ i < Len(resp)
        /\ resp[i].op = "join" /\ NonMember(resp[i]) /\ resp[i].outcome = "Success"
        /\ SameCall(resp[i], resp[i + 1])
        /\ resp[i + 1].outcome = "AlreadyMember"

\* C2: in every reachable state, whatever the interleaving of the requests,
\* no row <<event, user>> is in the attendee table more than once.
C2_AttendeeOnce == \A p \in DOMAIN attendees : attendees[p] <= 1

\* Two Joins of one event by one user that both passed the membership check
\* have both written.
C2_Witness ==
    /\ Len(resp) = 2
    /\ resp[1].op = "join" /\ resp[1].outcome = "Success" /\ NonMember(resp[1])
    /\ SameCall(resp[1], resp[2])
    /\ resp[2].outcome = "Success" /\ NonMember(resp[2])
    /\ CopiesIn(<<resp[1].id, resp[1].userId>>, attendees) = 1

\* C3: an Update whose findUnique returns an event with another creator than
\* the caller is answered Forbidden in that step; the step changes no row of
\* events or of the attendee table and broadcasts nothing, and the request
\* is over.
C3_UpdateForbidden ==
    [][\A c \in Slots :
          (/\ Takes(c, "update", "find")
           /\ calls[c].id \in DOMAIN events
           /\ events[calls[c].id]["creatorId"] # calls[c].userId)
          => (/\ Answers("Forbidden")
              /\ calls'[c].pc = "idle"
              /\ events' = events /\ attendees' = attendees /\ log' = log)]_vars

C3_Witness ==
    \E i \in Responses :
        /\ resp[i].op = "update" /\ resp[i].outcome = "Forbidden" /\ resp[i].pre.exists
        /\ resp[i].id \in DOMAIN events
        /\ events[resp[i].id]["creatorId"] # resp[i].userId

\* C4: a Delete whose findUnique returns an event with another creator than
\* the caller is answered Forbidden in that step, which changes no row and
\* broadcasts nothing; and a row of events is removed only by the write of a
\* Delete request, which a Delete reaches only when the creator it read is
\* its caller.
C4_DeleteForbidden ==
    [][/\ \A c \in Slots :
            (/\ Takes(c, "delete", "find")
             /\ calls[c].id \in DOMAIN events
             /\ events[calls[c].id]["creatorId"] # calls[c].userId)
            => (/\ Answers("Forbidden")
                /\ calls'[c].pc = "idle"
                /\ events' = events /\ attendees' = attendees /\ log' = log)
       /\ \A c \in Slots :
            (Takes(c, "delete", "find") /\ calls'[c].pc = "write")
            => (/\ calls[c].id \in DOMAIN events
                /\ events[calls[c].id]["creatorId"] = calls[c].userId)
       /\ \A e \in DOMAIN events :
            e \notin DOMAIN events'
            => \E c \in Slots : Takes(c, "delete", "write") /\ calls[c].id = e]_vars

C4_Witness ==
    /\ \E i \in Responses :
        /\ resp[i].op = "delete" /\ resp[i].outcome = "Forbidden" /\ resp[i].pre.exists
        /\ resp[i].id \in DOMAIN events
    /\ \E i \in Responses : resp[i].op = "delete" /\ resp[i].outcome = "Success"

\* C5: the row a Create stores has the caller as its creator and no attendee
\* row, whatever body the validation accepted.
C5_CreateEmpty ==
    [][\A c \in Slots :
          (Takes(c, "create", "write") /\ calls'[c].pc = "emit")
          => LET e == calls'[c].id
             IN  /\ e \in DOMAIN events'
                 /\ events'[e]["creatorId"] = calls[c].userId
                 /\ AttendeesOf(attendees', e) = {}]_vars

\* C6: no step changes the creator of a stored event.
C6_CreatorImmutable ==
    [][\A e \in DOMAIN events \cap DOMAIN events' :
          events'[e]["creatorId"] = events[e]["creatorId"]]_vars

\* C7: the write of an Update leaves every column that the body does not
\* name as it was, and leaves the attendees of the event as they were.
C7_UpdateFrame ==
    [][\A c \in Slots :
          (Takes(c, "update", "write") /\ calls'[c].pc = "emit")
          => LET e == calls[c].id
             IN  /\ \A k \in ScalarKeys \ DOMAIN calls[c].body :
                        events'[e][k] = events[e][k]
                 /\ AttendeesOf(attendees', e) = AttendeesOf(attendees, e)]_vars

\* C8: the write of a Delete removes the row of the event and every attendee
\* row of it, and leaves the other events and their attendee rows as they
\* were; the step after it broadcasts one eventDeleted to all clients, whose
\* payload is the identifier, and answers success.
C8_DeleteCascade ==
    [][\A c \in Slots :
          LET e == calls[c].id
          IN  /\ (Takes(c, "delete", "write") /\ calls'[c].pc = "emit")
                 => (/\ e \notin DOMAIN events'
                     /\ \A u \in Users : ~BagIn(<<e, u>>, attendees')
                     /\ \A d \in DOMAIN events \ {e} :
                            d \in DOMAIN events' /\ events'[d] = events[d]
                     /\ \A p \in DOMAIN attendees :
                            p[1] # e => CopiesIn(p, attendees') = attendees[p]
                     /\ log' = log)
              /\ Takes(c, "delete", "emit")
                 => (/\ log' = Append(log, [name |-> "eventDeleted", room |-> 0,
                                            payload |-> e])
                     /\ Cardinality({j \in 1..Len(log') :
                            log'[j].name = "eventDeleted" /\ log'[j].payload = e}) = 1
                     /\ Answers("Success"))]_vars

\* A creator who was an attendee of the event has deleted it; attendee rows
\* of another event remain.
C8_Witness ==
    \E i \in Responses :
        /\ resp[i].op = "delete" /\ resp[i].outcome = "Success" /\ resp[i].pre.member
        /\ resp[i].id \notin DOMAIN events
        /\ attendees # EmptyBag
        /\ \E j \in 1..Len(log) :
              log[j].name = "eventDeleted" /\ log[j].payload = resp[i].id

\* C9: the write of a Leave by a user who is not an attendee of the existing
\* event leaves the attendee table as it was and does not fail, and the
\* request is answered success; so is every repetition.
C9_LeaveNonMember ==
    [][\A c \in Slots :
          /\ (/\ Takes(c, "leave", "write")
              /\ calls[c].id \in DOMAIN events
              /\ ~BagIn(<<calls[c].id, calls[c].userId>>, attendees))
             => (attendees' = attendees /\ events' = events /\ calls'[c].pc = "emit")
          /\ Takes(c, "leave", "emit") => Answers("Success")]_vars

C9_Witness ==
    /\ Len(resp) >= 2
    /\ resp[1].op = "leave" /\ NonMember(resp[1]) /\ resp[1].outcome = "Success"
    /\ SameCall(resp[1], resp[2])
    /\ NonMember(resp[2]) /\ resp[2].outcome = "Success"
    /\ attendees # EmptyBag

\* C10: every eventUpdated broadcast carries, for the event of its room, a
\* state that a write had committed to the store before; an eventDeleted
\* broadcast names an event that is no longer in the store.
C10_WriteBeforeBroadcast ==
    \A i \in 1..Len(log) :
        /\ log[i].name = "eventUpdated" =>
              (log[i].payload \in committed /\ log[i].payload.id = log[i].room)
        /\ log[i].name = "eventDeleted" => log[i].payload \notin DOMAIN events

C10_Witness ==
    /\ \E i \in 1..Len(log) :
          log[i].name = "eventUpdated" /\ log[i].payload.attendees # {}
    /\ \E i \in 1..Len(log) : log[i].name = "eventDeleted"

Received(k, i) == \E j \in 1..Len(inbox[k]) : inbox[k][j] = i
Broadcasts == 1..Len(log)

\* C11: every client receives the eventUpdated notifications of one event in
\* the order in which their writes were committed.
C11_CommitOrder ==
    \A k \in Clients : \A i, j \in 1..Len(inbox[k]) :
        (/\ i < j
         /\ log[inbox[k][i]].name = "eventUpdated"
         /\ log[inbox[k][j]].name = "eventUpdated"
         /\ log[inbox[k][i]].room = log[inbox[k][j]].room)
        => stamps.sent[inbox[k][i]] < stamps.sent[inbox[k][j]]

\* C12: a broadcast of eventUpdated for event E reaches exactly the connected
\* clients whose socket joined the room of E; a broadcast of newEvent or
\* eventDeleted reaches exactly the connected clients.
C12_RoomScope ==
    [][Len(log') = Len(log) + 1 =>
          LET m == log'[Len(log')]
          IN  \A k \in Clients :
                 (inbox'[k] # inbox[k]) <=>
                    /\ sockets[k].connected
                    /\ \/ m.name \in {"newEvent", "eventDeleted"}
                       \/ m.name = "eventUpdated" /\ m.payload.id \in sockets[k].rooms]_vars

\* k1 watches the event and k2, connected, watches nothing: an eventUpdated
\* reached k1 only, a broadcast to all reached both.
C12_Witness ==
    /\ sockets["k2"].connected /\ sockets["k2"].rooms = {}
    /\ \E i \in Broadcasts :
          log[i].name = "eventUpdated" /\ Received("k1", i) /\ ~Received("k2", i)
    /\ \E i \in Broadcasts :
          log[i].name \in {"newEvent", "eventDeleted"}
          /\ Received("k1", i) /\ Received("k2", i)

\* C13: a client receives something only in the step that broadcasts it, only
\* while connected, and only that broadcast, once: no broadcast is in an
\* inbox twice and none arrives later, whatever the client subscribed to.
C13_AtMostOnce ==
    [][\A k \in Clients :
          /\ inbox'[k] # inbox[k] =>
                /\ Len(log') = Len(log) + 1
                /\ sockets[k].connected
                /\ inbox'[k] = Append(inbox[k], Len(log'))
          /\ \A i, j \in 1..Len(inbox'[k]) :
                i # j => inbox'[k][i] # inbox'[k][j]]_vars

\* k1 has subscribed to event 1 again (the only client operation that leaves
\* the sockets as they started) and holds its eventUpdated once; k3 is not
\* connected and holds nothing.
C13_Witness ==
    /\ hubOps = 1
    /\ sockets["k1"] = [connected |-> TRUE, rooms |-> {1}]
    /\ sockets["k2"] = [connected |-> TRUE, rooms |-> {}]
    /\ ~sockets["k3"].connected
    /\ \E i \in Broadcasts : log[i].name = "eventUpdated" /\ Received("k1", i)
    /\ Len(log) >= 1 /\ inbox["k3"] = <<>>

\* C14: a step that connects, disconnects or subscribes a client changes no
\* row of events or of the attendee table, and no step of a Join or a Leave
\* request changes the rooms of a socket.
C14_RoomsApart ==
    [][/\ (sockets' # sockets \/ hubOps' # hubOps) =>
             (events' = events /\ attendees' = attendees)
       /\ \A c \in Slots :
             (calls[c].op \in {"join", "leave"} /\ calls'[c] # calls[c]) =>
                sockets' = sockets]_vars

\* k2 has subscribed to an event that user u1 is no attendee of, while u1
\* joined and left event 1, which k1 watches.
C14_Witness ==
    /\ hubOps = 1
    /\ sockets["k2"].rooms # {}
    /\ \E i, j \in Responses :
          /\ resp[i].op = "join" /\ resp[i].outcome = "Success"
          /\ resp[j].op = "leave" /\ resp[j].outcome = "Success"
    /\ sockets["k1"].rooms = {1}

JoinsOf(c, d) ==
    /\ c # d
    /\ calls[c].op = "join" /\ calls[d].op = "join"
    /\ calls[c].id = calls[d].id
    /\ calls[c].pc = "emit" /\ calls[d].pc = "emit"

RoomUpdates(e) == {i \in Broadcasts : log[i].name = "eventUpdated" /\ log[i].room = e}

\* C15: when two Joins of one event by one user have both passed the
\* membership check and both written, the attendee table holds the user once
\* for the event; when the two are the only requests made and both were
\* answered success, each has broadcast eventUpdated and the user is still
\* there once.
C15_RacingJoins ==
    /\ \A c, d \in Slots :
          (JoinsOf(c, d) /\ calls[c].userId = calls[d].userId) =>
             CopiesIn(<<calls[c].id, calls[c].userId>>, attendees) = 1
    /\ (/\ issued = 2 /\ Len(resp) = 2
        /\ resp[1].op = "join" /\ SameCall(resp[1], resp[2])
        /\ NonMember(resp[1]) /\ NonMember(resp[2])
        /\ resp[1].outcome = "Success" /\ resp[2].outcome = "Success")
       => (/\ CopiesIn(<<resp[1].id, resp[1].userId>>, attendees) = 1
           /\ Cardinality(RoomUpdates(resp[1].id)) = 2)

C15_Witness ==
    /\ issued = 2 /\ Len(resp) = 2
    /\ resp[1].op = "join" /\ SameCall(resp[1], resp[2])
    /\ NonMember(resp[1]) /\ NonMember(resp[2])
    /\ resp[1].outcome = "Success" /\ resp[2].outcome = "Success"
    /\ Cardinality(RoomUpdates(resp[1].id)) = 2
    /\ \A i \in RoomUpdates(resp[1].id) : resp[1].userId \in log[i].payload.attendees

\* C16: when Joins of one event by two users are the only requests made,
\* then once both have written both users are attendees, and once both are
\* answered, neither user having been an attendee, both answers are success
\* and the table holds each of them once for the event.
C16_IndependentJoins ==
    issued = 2 =>
        /\ \A c, d \in Slots :
              (JoinsOf(c, d) /\ calls[c].userId # calls[d].userId) =>
                 {calls[c].userId, calls[d].userId} \subseteq AttendeesOf(attendees, calls[c].id)
        /\ (/\ Len(resp) = 2
            /\ resp[1].op = "join" /\ resp[2].op = "join"
            /\ resp[1].id = resp[2].id /\ resp[1].userId # resp[2].userId
            /\ NonMember(resp[1]) /\ NonMember(resp[2]))
           => (/\ resp[1].outcome = "Success" /\ resp[2].outcome = "Success"
               /\ \A i \in {1, 2} : CopiesIn(<<resp[i].id, resp[i].userId>>, attendees) = 1)

\* Both Joins have written and neither has answered yet.
C16_Witness ==
    \E c, d \in Slots :
        /\ issued = 2
        /\ JoinsOf(c, d) /\ calls[c].userId # calls[d].userId
        /\ NonMember(calls[c]) /\ NonMember(calls[d])

\* C17: an Update or a Delete whose findUnique finds no event is answered
\* NotFound in that step, whoever the caller is, and the step changes no row
\* and broadcasts nothing; Forbidden is only ever the answer for an event
\* that exists.
C17_NotFoundFirst ==
    [][/\ \A c \in Slots :
            (/\ Takes(c, "update", "find") \/ Takes(c, "delete", "find")
             /\ calls[c].id \notin DOMAIN events)
            => (/\ Answers("NotFound")
                /\ calls'[c].pc = "idle"
                /\ events' = events /\ attendees' = attendees /\ log' = log)
       /\ (Len(resp') = Len(resp) + 1 /\ Answers("Forbidden"))
            => resp'[Len(resp')].pre.exists]_vars

\* Update and Delete of an absent event by a user who is the creator of
\* another event.
C17_Witness ==
    /\ \E i \in Responses :
          /\ resp[i].op = "update" /\ resp[i].outcome = "NotFound" /\ ~resp[i].pre.exists
          /\ \E e \in DOMAIN events : events[e]["creatorId"] = resp[i].userId
    /\ \E i \in Responses :
          resp[i].op = "delete" /\ resp[i].outcome = "NotFound" /\ ~resp[i].pre.exists

BodyValid(op, body) ==
    CASE op = "create" -> eventSchema(body)
      [] op = "update" -> eventSchemaPartial(body)
      [] OTHER -> TRUE

\* C19: a request without a valid token is answered Unauthenticated, whatever
\* its operation and its body, and only such a request is; a request
\* answered Unauthenticated or ValidationFailed is answered in the step it
\* arrives in, which reads and changes no row, broadcasts nothing and starts
\* no handler; a handler runs only for a user and a body that the schema of
\* its route accepts.
C19_AuthFirst ==
    [][/\ (/\ Len(resp') = Len(resp) + 1
           /\ resp'[Len(resp')].outcome \in {"Unauthenticated", "ValidationFailed"})
          => (/\ events' = events /\ attendees' = attendees /\ nextId' = nextId
              /\ log' = log /\ committed' = committed /\ inbox' = inbox
              /\ calls' = calls
              /\ issued' = issued + 1)
       /\ Len(resp') = Len(resp) + 1
             => ((resp'[Len(resp')].userId = NoUser) <=> Answers("Unauthenticated"))
       /\ \A c \in Slots :
             calls'[c].pc # "idle" =>
                (calls'[c].userId \in Users /\ BodyValid(calls'[c].op, calls'[c].body))]_vars

\* One request of each operation pair was refused: one for its token, one
\* for its body.
C19_Witness ==
    /\ Len(resp) = 2
    /\ resp[1].outcome = "Unauthenticated" /\ resp[1].op \in {"create", "update"}
    /\ resp[2].outcome = "ValidationFailed" /\ resp[2].userId \in Users
    /\ log = <<>>

\* C18: a listing answered 200 has a limit in 1..100 and a page of at
\* least 1; its totalEvents T is the number of rows that where selects;
\* its totalPages is the least number of pages of limit rows that hold T
\* rows; hasNextPage is page < totalPages and hasPrevPage is page > 1; and
\* its events are the rows after the first (page-1)*limit, limit of them at
\* most, of an ordering of the very rows that T counts.
C18_Pagination ==
    listing.status = 200 =>
        LET T == listing.totalEvents
            L == listing.limit
            P == listing.currentPage
            rest == T - (P - 1) * L
        IN  /\ L \in 1..MaxLimit /\ P >= 1
            /\ T = Cardinality(listing.matched)
            /\ listing.totalPages * L >= T
            /\ (listing.totalPages - 1) * L < T
            /\ listing.hasNextPage <=> P < listing.totalPages
            /\ listing.hasPrevPage <=> P > 1
            /\ Len(listing.events) = IF rest <= 0 THEN 0 ELSE IF rest < L THEN rest ELSE L
            /\ \E ord \in Ordered(events, attendees, listing.matched,
                                  listing.sortBy, listing.sortOrder) :
                  \A i \in 1..Len(listing.events) :
                      listing.events[i] = ord[(P - 1) * L + i]

\* The second and last page of three rows, two to a page.
C18_Witness ==
    /\ listing.status = 200
    /\ listing.totalEvents = 3 /\ listing.limit = 2 /\ listing.currentPage = 2
    /\ listing.totalPages = 2
    /\ Len(listing.events) = 1
    /\ listing.hasPrevPage /\ ~listing.hasNextPage

\* C20: a listing with a category filter selects exactly the events whose
\* category is the filter up to the case of its letters.
C20_CaseInsensitive ==
    (listing.status = 200 /\ "category" \in DOMAIN listing.query) =>
        \A e \in DOMAIN events :
            e \in listing.matched <=>
                ToLowerCase(events[e]["category"])
                    = ToLowerCase(Trim(listing.query["category"]))

ErrorOutcomes ==
    {"Unauthenticated", "ValidationFailed", "NotFound", "Forbidden", "AlreadyMember",
     "Internal"}

\* The response sent in this step, if one is, is an error.
AnswersError ==
    Len(resp') = Len(resp) + 1 /\ resp'[Len(resp')].outcome \in ErrorOutcomes

\* C21: an Update or a Join that comes to its write when the event is not in
\* the store is answered NotFound in that step and broadcasts nothing.
C21_GoneAtWrite ==
    [][\A c \in Slots :
          (/\ Takes(c, "update", "write") \/ Takes(c, "join", "write")
           /\ calls[c].id \notin DOMAIN events)
          => (Answers("NotFound") /\ log' = log)]_vars

\* C22: in the order of the broadcasts, no eventUpdated for an event follows
\* the eventDeleted of that event.
C22_NoUpdateAfterDelete ==
    \A i, j \in Broadcasts :
        (/\ i < j
         /\ log[i].name = "eventDeleted"
         /\ log[j].name = "eventUpdated")
        => log[j].room # log[i].payload

\* The last eventUpdated broadcast to the room of e.
LastUpdate(e) == CHOOSE i \in RoomUpdates(e) : \A j \in RoomUpdates(e) : j <= i

\* C23: when every request made was an Update, a Join or a Leave and all
\* are answered, then for every event in the store that had an eventUpdated
\* broadcast, the payload of the last one is the row and the attendee set
\* that the store holds.
C23_LastPayloadIsStore ==
    (/\ AllIdle
     /\ issued = Len(resp)
     /\ \A i \in Responses : resp[i].op \in {"update", "join", "leave"})
    => \A e \in DOMAIN events :
          RoomUpdates(e) # {} =>
             log[LastUpdate(e)].payload = Snapshot(events, attendees, e)

\* C24: a step that answers an error changes no row of events or _Attendees
\* and broadcasts nothing, and the request it answers had written nothing
\* before: rows change only in the write step of a request that goes on to
\* its emit, and a request at its emit is answered success.  A broadcast is
\* made only in a step that answers success, and such a step makes exactly
\* one.
C24_ErrorsChangeNothing ==
    [][/\ AnswersError =>
             (events' = events /\ attendees' = attendees /\ log' = log)
       /\ (events' # events \/ attendees' # attendees) =>
             \E c \in Slots : calls[c].pc = "write" /\ calls'[c].pc = "emit"
       /\ \A c \in Slots :
             (calls[c].pc = "emit" /\ calls'[c] # calls[c]) => Answers("Success")
       /\ log' # log => (Answers("Success") /\ Len(log') = Len(log) + 1)
       /\ Answers("Success") =>
             (Len(log') = Len(log) + 1 /\ SubSeq(log', 1, Len(log)) = log)]_vars

\* A Join that lost its event to a Delete: one success with its one
\* broadcast, one error with none.
C24_Witness ==
    /\ Len(resp) = 2
    /\ \E i \in Responses : resp[i].op = "delete" /\ resp[i].outcome = "Success"
    /\ \E i \in Responses : resp[i].op = "join" /\ resp[i].outcome = "Internal"
    /\ Len(log) = 1 /\ log[1].name = "eventDeleted"

\* C25: a Leave that comes to its update when the event is not in the store
\* is answered an error in that step; the step adds no event and no
\* attendee row and broadcasts nothing.
C25_LeaveAbsent ==
    [][\A c \in Slots :
          (Takes(c, "leave", "write") /\ calls[c].id \notin DOMAIN events)
          => (/\ AnswersError
              /\ calls'[c].pc = "idle"
              /\ events' = events /\ attendees' = attendees /\ nextId' = nextId
              /\ log' = log)]_vars

C25_Witness ==
    \E i \in Responses :
        /\ resp[i].op = "leave" /\ resp[i].userId \in Users
        /\ ~resp[i].pre.exists
        /\ resp[i].outcome \in ErrorOutcomes
        /\ resp[i].id \notin DOMAIN events
        /\ \A j \in Broadcasts : log[j].name # "eventUpdated"

====
